---- MODULE Spec2Model ----
(***************************************************************************)
(* A state-machine model of td.Converter (src/src/td/converter/Converter.ts)*)
(* the orchestrator that compiles source files with the TypeScript          *)
(* front-end and converts them to reflections, and of the ts.CompilerHost   *)
(* callbacks it implements.                                                 *)
(*                                                                          *)
(* A convert call is a frame on a call stack: listeners run synchronously   *)
(* inside dispatch, so a listener that starts another convert pushes a new  *)
(* frame and the outer call resumes when the inner one has returned.        *)
(***************************************************************************)
EXTENDS Integers, Sequences, FiniteSets, TLC

VARIABLES
    calls,      \* every convert call made so far: its locals and its position
    stack,      \* ids of the convert calls that have not returned, innermost last
    projects,   \* the heap of ProjectReflection objects, by allocation order
    contexts,   \* the heap of Context objects, by allocation order
    log,        \* the dispatches and file visits, in the order they happened
    opsLeft,    \* how many index mutations the listeners may still make
    callsLeft,  \* how many convert calls may still start
    currentDirectory,  \* each Converter's private field currentDirectory
    sysCwd,            \* what ts.sys.getCurrentDirectory() returns now
    cwdReturned,       \* what each Converter's getCurrentDirectory returned, in order
    cwdComputed,       \* how often each Converter asked ts.sys for the directory
    useCaseSensitiveFileNames,  \* ts.sys.useCaseSensitiveFileNames
    lastCall,          \* the latest other CompilerHost callback and its outcome
    fileNames,  \* the array of file names the caller passes to convert
    plugins,    \* the registered plugins and the Converter's construction
    ast,        \* the syntax tree of the source file that visit walks
    walk,       \* visit's recursion, the Context's scope stack and its history
    reflected   \* the reflections visit created and the symbol mapping

convertVars == <<calls, stack, projects, contexts, log, opsLeft, callsLeft,
                 fileNames>>

hostVars == <<currentDirectory, sysCwd, cwdReturned, cwdComputed,
              useCaseSensitiveFileNames, lastCall>>

pluginVars == <<plugins>>

visitVars == <<ast, walk, reflected>>

vars == <<calls, stack, projects, contexts, log, opsLeft, callsLeft,
          currentDirectory, sysCwd, cwdReturned, cwdComputed,
          useCaseSensitiveFileNames, lastCall, fileNames, plugins,
          ast, walk, reflected>>

----------------------------------------------------------------------------
(* Bounds of the model.                                                     *)

MaxCalls == 2          \* convert calls in one behaviour of SpecCalls
MaxListenerOps == 3    \* reflections the listeners add or remove in one behaviour of Spec
MaxCwdCalls == 3       \* getCurrentDirectory calls in one behaviour of SpecHost
MaxPathLen == 2        \* characters of a path handed to getCanonicalFileName
MaxNodes == 3          \* nodes of a source file below the SourceFile node

----------------------------------------------------------------------------
(* The inputs: what the external front-end hands back.                      *)

\* The files on disk: a.ts holds one declaration and a syntax error, b.ts
\* holds no declaration and two type errors.
FileNames == {"a.ts", "b.ts"}

\* The declarations the visit of a file turns into reflections.
DeclCount(f) == IF f = "a.ts" THEN 1 ELSE 0

SyntacticDiagnostics(f) == IF f = "a.ts" THEN <<"TS1005">> ELSE <<>>

SemanticDiagnostics(f) == IF f = "a.ts" THEN <<>> ELSE <<"TS2304", "TS2322">>

NoDup(s) == \A i, j \in DOMAIN s : i # j => s[i] # s[j]

BoundedSeq(S, n) == UNION {[1..k -> S] : k \in 0..n}

\* program.getSourceFiles(): each file of the program once, in the
\* front-end's order.
SourceFileLists == {s \in BoundedSeq(FileNames, Cardinality(FileNames)) : NoDup(s)}

\* program.getDiagnostics(): the syntactic diagnostics of the program's files.
RECURSIVE ProgramDiagnostics(_)
ProgramDiagnostics(sourceFiles) ==
    IF sourceFiles = <<>> THEN <<>>
    ELSE SyntacticDiagnostics(Head(sourceFiles)) \o ProgramDiagnostics(Tail(sourceFiles))

\* checker.getDiagnostics(): the semantic diagnostics of the program's files.
RECURSIVE CheckerDiagnostics(_)
CheckerDiagnostics(sourceFiles) ==
    IF sourceFiles = <<>> THEN <<>>
    ELSE SemanticDiagnostics(Head(sourceFiles)) \o CheckerDiagnostics(Tail(sourceFiles))

----------------------------------------------------------------------------
(* Event names.                                                             *)

EVENT_BEGIN == "begin"
EVENT_END == "end"
EVENT_FILE_BEGIN == "fileBegin"
EVENT_CREATE_DECLARATION == "createDeclaration"
EVENT_RESOLVE_BEGIN == "resolveBegin"
EVENT_RESOLVE == "resolveReflection"
EVENT_RESOLVE_END == "resolveEnd"

\* Not an event: the log's record of Visit Dispatch entering a file's root node.
VISIT == "visit"

\* What visit dispatches first when it is handed a source file.
VisitEntry == EVENT_FILE_BEGIN

NoFile == ""
NoReflection == 0

ContextArgLatest(c) == Len(contexts)

\* Lines 275-289: the local variable context, which every dispatch and every
\* visit of the call is handed.
ContextArg(c) == calls[c].context

Entry(c, ev, f, r) ==
    [call |-> c, ev |-> ev, ctx |-> ContextArg(c), file |-> f, refl |-> r]

----------------------------------------------------------------------------
(* The objects a convert call allocates.                                    *)

\* new ProjectReflection(settings.name): a fresh object with an empty index.
EmptyProject == [reflections |-> {}, nextId |-> 1]

NewProjectShared(heap) == IF heap = <<>> THEN 1 ELSE Len(heap)

NewProject(heap) == Len(heap) + 1

\* new Context(this, settings, compilerOptions, fileNames, checker, project)
NewContext(heap) == Len(heap) + 1

Allocate(heap, ref, obj) ==
    IF ref = Len(heap) + 1 THEN Append(heap, obj) ELSE heap

\* errors = program.getDiagnostics().concat(checker.getDiagnostics())
ErrorsCheckerFirst(programDiags, checkerDiags) == checkerDiags \o programDiags

Errors(programDiags, checkerDiags) == programDiags \o checkerDiags

----------------------------------------------------------------------------
(* The control flow of convert, as the position reached after each step.    *)

PcAfterResolveFirst(pc) ==
    CASE pc = "begin"        -> "resolveBegin"
      [] pc = "files"        -> "return"
      [] pc = "resolveBegin" -> "forIn"
      [] pc = "forIn"        -> "resolveEnd"
      [] pc = "resolveEnd"   -> "files"
      [] pc = "end"          -> "files"
      [] OTHER               -> "returned"

PcAfter(pc) ==
    CASE pc = "begin"        -> "files"
      [] pc = "files"        -> "resolveBegin"
      [] pc = "resolveBegin" -> "forIn"
      [] pc = "forIn"        -> "resolveEnd"
      [] pc = "resolveEnd"   -> "end"
      [] pc = "end"          -> "return"
      [] OTHER               -> "returned"

\* forEach: the element after the one at index i.
NextFileSkipping(i) == i + 2

NextFile(i) == i + 1

----------------------------------------------------------------------------
(* for (var id in project.reflections) enumerates the live object, no copy  *)
(* of it.  ECMAScript: a property deleted before it is visited is not       *)
(* visited.  The engine typedoc runs on (Node.js, V8) collects the keys     *)
(* when the loop starts, so a property added later is not enumerated.  The  *)
(* order of the enumeration is left to the engine.                          *)

ForInPendingLive(keys, done, index) == index \ done

ForInPending(keys, done, index) == (keys \ done) \cap index

----------------------------------------------------------------------------
(* Listeners.  What a listener does to the project of the context it is     *)
(* handed: it may add one reflection to the index and remove some.          *)

Cost(e) == (IF e.add THEN 1 ELSE 0) + Cardinality(e.remove)

ListenerEffects(project) ==
    {e \in [add : BOOLEAN, remove : SUBSET project.reflections] :
        Cardinality(e.remove) <= 1 /\ Cost(e) <= opsLeft}

\* The reflections the effect adds: a new reflection takes the next identity.
Added(project, e) == IF e.add THEN {project.nextId} ELSE {}

ApplyEffect(project, e) ==
    [reflections |-> (project.reflections \ e.remove) \cup Added(project, e),
     nextId      |-> project.nextId + (IF e.add THEN 1 ELSE 0)]

\* What visit registers for a declaration node: a reflection with the next
\* identity, entered in the project's index.
CreateReflection(project) ==
    [reflections |-> project.reflections \cup {project.nextId},
     nextId      |-> project.nextId + 1]

Top == stack[Len(stack)]

Running(c) == stack # <<>> /\ Top = c

\* this.dispatch(event, context, ...): the listeners run before it returns.
Dispatch(c, ev, f, r, e, nextPc) ==
    LET p == calls[c].project IN
    /\ log' = Append(log, Entry(c, ev, f, r))
    /\ projects' = [projects EXCEPT ![p] = ApplyEffect(@, e)]
    /\ opsLeft' = opsLeft - Cost(e)
    /\ calls' = [calls EXCEPT ![c].pc = nextPc, ![c].inListener = TRUE]
    /\ UNCHANGED <<stack, contexts, callsLeft, fileNames,
                   hostVars, pluginVars, visitVars>>

----------------------------------------------------------------------------
(* convert(fileNames)                                                       *)

\* The file names a caller passes: paths of at most MaxPathLen characters,
\* written with backslashes as a Windows caller writes them.
NameCharacters == {"a", ".", "\\"}

RawPaths == BoundedSeq(NameCharacters, MaxPathLen)

\* The arrays a caller passes: none, one or two file names.
FileNameLists ==
    {<<>>} \cup {<<p>> : p \in RawPaths} \cup {<<p, q>> : p, q \in RawPaths}

\* ts.normalizeSlashes(path): path.replace(/\\/g, "/")
NormalizeSlashes(path) ==
    [i \in 1..Len(path) |-> IF path[i] = "\\" THEN "/" ELSE path[i]]

\* String.prototype.indexOf: the first index of ch at or after from, counted
\* from 1 here; 0 when there is none.
IndexOf(path, ch, from) ==
    LET hits == {i \in from..Len(path) : path[i] = ch}
    IN  IF hits = {} THEN 0 ELSE CHOOSE i \in hits : \A j \in hits : i <= j

\* ts.getRootLength(path): "/" is a root of length 1, "//server/share/" is a
\* UNC root.  Drive letters do not occur in NameCharacters.
RootLength(path) ==
    IF path = <<>> \/ path[1] # "/" THEN 0
    ELSE IF Len(path) < 2 \/ path[2] # "/" THEN 1
    ELSE LET p1 == IndexOf(path, "/", 3)
         IN  IF p1 = 0 THEN 2
             ELSE LET p2 == IndexOf(path, "/", p1 + 1)
                  IN  IF p2 = 0 THEN p1 ELSE p2

\* String.prototype.split("/")
RECURSIVE Split(_)
Split(path) ==
    LET i == IndexOf(path, "/", 1)
    IN  IF i = 0 THEN <<path>>
        ELSE <<SubSeq(path, 1, i - 1)>> \o Split(SubSeq(path, i + 1, Len(path)))

\* ts.getNormalizedParts: "." is dropped, ".." removes the part before it
\* unless there is none or it is ".." itself.
RECURSIVE NormalizedParts(_, _)
NormalizedParts(parts, normalized) ==
    IF parts = <<>> THEN normalized
    ELSE LET part == Head(parts)
             n    == Len(normalized)
         IN  IF part = <<".">> THEN NormalizedParts(Tail(parts), normalized)
             ELSE IF part = <<".", ".">> /\ n > 0 /\ normalized[n] # <<".", ".">>
                  THEN NormalizedParts(Tail(parts), SubSeq(normalized, 1, n - 1))
                  ELSE NormalizedParts(Tail(parts), Append(normalized, part))

\* Array.prototype.join("/")
RECURSIVE Join(_)
Join(parts) ==
    IF parts = <<>> THEN <<>>
    ELSE IF Len(parts) = 1 THEN parts[1]
    ELSE parts[1] \o <<"/">> \o Join(Tail(parts))

\* ts.normalizePath(path)
NormalizePath(path) ==
    LET slashed == NormalizeSlashes(path)
        root    == RootLength(slashed)
    IN  SubSeq(slashed, 1, root)
            \o Join(NormalizedParts(Split(SubSeq(slashed, root + 1, Len(slashed))), <<>>))

\* Line 263: for (var i = 0, c = fileNames.length; i < c; i++)
LoopEndBeforeLast(length) == length - 1

LoopEnd(length) == length

\* Lines 263-265: the loop overwrites each entry of the caller's array.
NormalizeFileNames(names) ==
    [i \in 1..Len(names) |->
        IF i <= LoopEnd(Len(names))
        THEN NormalizePath(NormalizeSlashes(names[i]))
        ELSE names[i]]

----------------------------------------------------------------------------
(* Lines 216-221: new Converter(application) calls Converter.loadPlugins,   *)
(* PluginHost's static method, which instantiates the registered plugins.   *)

PluginNames == {"comment", "group", "source"}

NoConstraint == [order |-> "none", other |-> "none"]

\* A registered plugin declares at most one ordering constraint: that it is
\* activated before, or after, the plugin of the given name.
Constraints == [order : {"before", "after"}, other : PluginNames] \cup {NoConstraint}

\* PluginHost.PLUGINS, the static registry, when a Converter is constructed.
Registries == UNION {[names -> Constraints] : names \in SUBSET PluginNames}

\* a must be activated before b.
Precedes(registry, a, b) ==
    /\ a \in DOMAIN registry
    /\ b \in DOMAIN registry
    /\ \/ registry[a].order = "before" /\ registry[a].other = b
       \/ registry[b].order = "after" /\ registry[b].other = a

\* A constraint names a plugin that is not registered.
UnknownPlugin(registry) ==
    \E n \in DOMAIN registry :
        registry[n].order # "none" /\ registry[n].other \notin DOMAIN registry

\* The constraints contain a cycle: some plugins each wait for another of them.
CyclicOrder(registry) ==
    \E S \in SUBSET DOMAIN registry :
        /\ S # {}
        /\ \A b \in S : \E a \in S : Precedes(registry, a, b)

\* loadPlugins checks the constraints before it instantiates any plugin.
LoadPluginsThrows(registry) == UnknownPlugin(registry) \/ CyclicOrder(registry)

NotConstructed(registry) ==
    [registry |-> registry, status |-> "new", active |-> <<>>, error |-> ""]

\* A Converter whose construction has completed with no plugin registered.
Constructed == [NotConstructed(<<>>) EXCEPT !.status = "ready"]

Active == {plugins.active[i] : i \in DOMAIN plugins.active}

ConstructorCatches == "ready"

\* Lines 216-221: the constructor has no try block, so what loadPlugins
\* throws leaves the constructor and no Converter exists.
ConstructorAfterThrow == "failed"

\* new Converter(application), up to the check loadPlugins makes.
Construct ==
    /\ plugins.status = "new"
    /\ plugins' = IF LoadPluginsThrows(plugins.registry)
                  THEN [plugins EXCEPT !.status = ConstructorAfterThrow,
                                       !.error = "configuration"]
                  ELSE [plugins EXCEPT !.status = "loading"]
    /\ UNCHANGED <<convertVars, hostVars, visitVars>>

\* loadPlugins instantiates a plugin whose predecessors are all active.
ActivatePlugin(n) ==
    /\ plugins.status = "loading"
    /\ n \in DOMAIN plugins.registry \ Active
    /\ \A a \in DOMAIN plugins.registry : Precedes(plugins.registry, a, n) => a \in Active
    /\ plugins' = [plugins EXCEPT !.active = Append(@, n)]
    /\ UNCHANGED <<convertVars, hostVars, visitVars>>

\* loadPlugins and the constructor return.
ConstructorReturn ==
    /\ plugins.status = "loading"
    /\ Active = DOMAIN plugins.registry
    /\ plugins' = [plugins EXCEPT !.status = "ready"]
    /\ UNCHANGED <<convertVars, hostVars, visitVars>>

ArrayUntouched(names) == names

\* Line 264: fileNames[i] = ... assigns to the elements of the array the
\* caller passed, which therefore holds the normalized names after the loop.
ArrayAfterLoop(names) == NormalizeFileNames(names)

\* Line 275: new Context(..., fileNames, ...) is handed the parameter itself,
\* a reference to the caller's array, whose elements the variable fileNames
\* holds.
ArgumentArray == "fileNames"

\* No error has left the call.
NotRaised == [is |-> FALSE, pc |-> "", at |-> 0]

\* Lines 263-275: the program, the checker, the project, the diagnostics and
\* the Context.  A call starts from the outside when no convert is active, or
\* from a listener of the innermost active call.
Convert(sourceFiles) ==
    /\ callsLeft > 0
    /\ plugins.status = "ready"
    /\ IF stack = <<>> THEN TRUE ELSE calls[Top].inListener
    /\ LET c == Len(calls) + 1
           p == NewProject(projects)
           x == NewContext(contexts)
           programDiags == ProgramDiagnostics(sourceFiles)
           checkerDiags == CheckerDiagnostics(sourceFiles)
       IN /\ projects' = Allocate(projects, p, EmptyProject)
          /\ contexts' = Allocate(contexts, x, [project |-> p, call |-> c])
          /\ calls' = Append(calls,
                [pc            |-> "begin",
                 given         |-> fileNames,
                 rootNames     |-> NormalizeFileNames(fileNames),
                 contextFileNames |-> ArgumentArray,
                 sourceFiles   |-> sourceFiles,
                 programDiags  |-> programDiags,
                 checkerDiags  |-> checkerDiags,
                 errors        |-> Errors(programDiags, checkerDiags),
                 project       |-> p,
                 context       |-> x,
                 fileIdx       |-> 1,
                 nodeIdx       |-> 0,
                 inListener    |-> FALSE,
                 keys          |-> {},
                 done          |-> {},
                 addedInPass   |-> {},
                 raised        |-> NotRaised,
                 result        |-> [returned |-> FALSE, errors |-> <<>>, project |-> 0]])
          /\ stack' = Append(stack, c)
    /\ fileNames' = ArrayAfterLoop(fileNames)
    /\ callsLeft' = callsLeft - 1
    /\ UNCHANGED <<log, opsLeft, hostVars, pluginVars, visitVars>>

\* Line 276: this.dispatch(Converter.EVENT_BEGIN, context)
DispatchBegin(c, e) ==
    /\ Running(c) /\ calls[c].pc = "begin"
    /\ Dispatch(c, EVENT_BEGIN, NoFile, NoReflection, e, PcAfter("begin"))

\* Lines 278-279: forEach hands the next source file to visit(context,
\* sourceFile), which first dispatches "file begin" for it.
VisitSourceFile(c, e) ==
    /\ Running(c) /\ calls[c].pc = "files"
    /\ calls[c].fileIdx <= Len(calls[c].sourceFiles)
    /\ Dispatch(c, VisitEntry,
                calls[c].sourceFiles[calls[c].fileIdx], NoReflection, e, "root")

\* Line 278: forEach has no element left.
FilesDone(c) ==
    /\ Running(c) /\ calls[c].pc = "files"
    /\ calls[c].fileIdx > Len(calls[c].sourceFiles)
    /\ calls' = [calls EXCEPT ![c].pc = PcAfter("files"), ![c].inListener = FALSE]
    /\ UNCHANGED <<stack, projects, contexts, log, opsLeft, callsLeft, fileNames,
                   hostVars, pluginVars, visitVars>>

\* visit: Visit Dispatch enters the file's root node.
VisitRoot(c) ==
    /\ Running(c) /\ calls[c].pc = "root"
    /\ calls' = [calls EXCEPT ![c].pc = "nodes", ![c].nodeIdx = 0,
                              ![c].inListener = FALSE]
    /\ log' = Append(log,
            Entry(c, VISIT, calls[c].sourceFiles[calls[c].fileIdx], NoReflection))
    /\ UNCHANGED <<stack, projects, contexts, opsLeft, callsLeft, fileNames,
                   hostVars, pluginVars, visitVars>>

\* visit: a declaration node becomes a reflection in the project's index and
\* its "created" event is dispatched.
VisitDeclaration(c, e) ==
    LET p == calls[c].project
        f == calls[c].sourceFiles[calls[c].fileIdx]
    IN /\ Running(c) /\ calls[c].pc = "nodes"
       /\ calls[c].nodeIdx < DeclCount(f)
       /\ log' = Append(log,
               Entry(c, EVENT_CREATE_DECLARATION, f, projects[p].nextId))
       /\ projects' = [projects EXCEPT ![p] = ApplyEffect(CreateReflection(@), e)]
       /\ opsLeft' = opsLeft - Cost(e)
       /\ calls' = [calls EXCEPT ![c].nodeIdx = @ + 1, ![c].inListener = TRUE]
       /\ UNCHANGED <<stack, contexts, callsLeft, fileNames,
                      hostVars, pluginVars, visitVars>>

\* visit returns: forEach moves to the next element.
VisitReturn(c) ==
    /\ Running(c) /\ calls[c].pc = "nodes"
    /\ calls[c].nodeIdx >= DeclCount(calls[c].sourceFiles[calls[c].fileIdx])
    /\ calls' = [calls EXCEPT
            ![c].pc = "files",
            ![c].fileIdx = NextFile(@),
            ![c].nodeIdx = 0,
            ![c].inListener = FALSE]
    /\ UNCHANGED <<stack, projects, contexts, log, opsLeft, callsLeft, fileNames,
                   hostVars, pluginVars, visitVars>>

\* Line 282: this.dispatch(Converter.EVENT_RESOLVE_BEGIN, context)
DispatchResolveBegin(c, e) ==
    /\ Running(c) /\ calls[c].pc = "resolveBegin"
    /\ Dispatch(c, EVENT_RESOLVE_BEGIN, NoFile, NoReflection, e,
                PcAfter("resolveBegin"))

\* Line 283: the for-in statement starts enumerating project.reflections.
ForInStart(c) ==
    /\ Running(c) /\ calls[c].pc = "forIn"
    /\ calls' = [calls EXCEPT
            ![c].pc = "resolve",
            ![c].keys = projects[calls[c].project].reflections,
            ![c].done = {},
            ![c].inListener = FALSE]
    /\ UNCHANGED <<stack, projects, contexts, log, opsLeft, callsLeft, fileNames,
                   hostVars, pluginVars, visitVars>>

\* Lines 283-285: one iteration; the enumeration order is the engine's.
DispatchResolve(c, id, e) ==
    LET p == calls[c].project IN
    /\ Running(c) /\ calls[c].pc = "resolve"
    /\ id \in ForInPending(calls[c].keys, calls[c].done, projects[p].reflections)
    /\ log' = Append(log, Entry(c, EVENT_RESOLVE, NoFile, id))
    /\ projects' = [projects EXCEPT ![p] = ApplyEffect(@, e)]
    /\ opsLeft' = opsLeft - Cost(e)
    /\ calls' = [calls EXCEPT
            ![c].done = @ \cup {id},
            ![c].inListener = TRUE,
            ![c].addedInPass = @ \cup Added(projects[p], e)]
    /\ UNCHANGED <<stack, contexts, callsLeft, fileNames,
                   hostVars, pluginVars, visitVars>>

\* Line 283: the enumeration is exhausted.
ForInEnd(c) ==
    LET p == calls[c].project IN
    /\ Running(c) /\ calls[c].pc = "resolve"
    /\ ForInPending(calls[c].keys, calls[c].done, projects[p].reflections) = {}
    /\ calls' = [calls EXCEPT ![c].pc = PcAfter("forIn"), ![c].inListener = FALSE]
    /\ UNCHANGED <<stack, projects, contexts, log, opsLeft, callsLeft, fileNames,
                   hostVars, pluginVars, visitVars>>

\* Line 288: this.dispatch(Converter.EVENT_RESOLVE_END, context)
DispatchResolveEnd(c, e) ==
    /\ Running(c) /\ calls[c].pc = "resolveEnd"
    /\ Dispatch(c, EVENT_RESOLVE_END, NoFile, NoReflection, e, PcAfter("resolveEnd"))

\* Line 289: this.dispatch(Converter.EVENT_END, context)
DispatchEnd(c, e) ==
    /\ Running(c) /\ calls[c].pc = "end"
    /\ Dispatch(c, EVENT_END, NoFile, NoReflection, e, PcAfter("end"))

\* Lines 291-294: return { errors: errors, project: project }
Return(c) ==
    /\ Running(c) /\ calls[c].pc = "return"
    /\ calls' = [calls EXCEPT
            ![c].pc = "returned",
            ![c].inListener = FALSE,
            ![c].result = [returned |-> TRUE,
                           errors   |-> calls[c].errors,
                           project  |-> calls[c].project]]
    /\ stack' = SubSeq(stack, 1, Len(stack) - 1)
    /\ UNCHANGED <<projects, contexts, log, opsLeft, callsLeft, fileNames,
                   hostVars, pluginVars, visitVars>>

PcAfterRaiseCaught(pc) == pc

\* Lines 276-289: no dispatch and no visit is inside a try statement, so an
\* error leaves convert from wherever it is raised.
PcAfterRaise(pc) == "raised"

\* A listener that a dispatch of call c is running, or the visit of a node,
\* raises an error.
Raise(c) ==
    /\ Running(c)
    /\ IF calls[c].inListener THEN TRUE ELSE calls[c].pc \in {"root", "nodes"}
    /\ LET next == PcAfterRaise(calls[c].pc) IN
        /\ calls' = [calls EXCEPT
                ![c].pc = next,
                ![c].inListener = FALSE,
                ![c].raised = [is |-> TRUE, pc |-> calls[c].pc, at |-> Len(log)]]
        /\ stack' = IF next = "raised" THEN SubSeq(stack, 1, Len(stack) - 1) ELSE stack
    /\ UNCHANGED <<projects, contexts, log, opsLeft, callsLeft, fileNames,
                   hostVars, pluginVars, visitVars>>


----------------------------------------------------------------------------
(* The ts.CompilerHost callbacks.                                           *)

Converters == {"c1", "c2"}

Undefined == "<undefined>"

\* What the platform may report as the current directory.
Directories == {"", "/a", "/b"}

\* JavaScript's ||: undefined and the empty string are falsy.
Falsy(v) == v = Undefined \/ v = ""

\* this.currentDirectory || (...): the right operand is evaluated only when
\* the field is falsy.
Cached(cached) == ~Falsy(cached)

Total(f) == LET RECURSIVE Sum(_)
                Sum(S) == IF S = {} THEN 0
                          ELSE LET x == CHOOSE y \in S : TRUE
                               IN f[x] + Sum(S \ {x})
            IN Sum(DOMAIN f)

CacheOfFirst(self) == "c1"

\* Lines 106-109: currentDirectory is a private instance field, so
\* this.currentDirectory is the field of the Converter that was called.
CacheOf(self) == self

\* Lines 360-362:
\* return this.currentDirectory || (this.currentDirectory = ts.sys.getCurrentDirectory())
GetCurrentDirectory(self) ==
    LET cached == currentDirectory[CacheOf(self)]
        value == IF Cached(cached) THEN cached ELSE sysCwd
    IN /\ Total([c \in Converters |-> Len(cwdReturned[c])]) < MaxCwdCalls
       /\ currentDirectory' = [currentDirectory EXCEPT ![CacheOf(self)] = value]
       /\ cwdComputed' = [cwdComputed EXCEPT ![self] =
               IF Cached(cached) THEN @ ELSE @ + 1]
       /\ cwdReturned' = [cwdReturned EXCEPT ![self] = Append(@, value)]
       /\ UNCHANGED <<sysCwd, useCaseSensitiveFileNames, lastCall, convertVars, pluginVars, visitVars>>

\* The process changes its working directory (process.chdir).
ChangeDirectory(dir) ==
    /\ dir # sysCwd
    /\ sysCwd' = dir
    /\ UNCHANGED <<currentDirectory, cwdReturned, cwdComputed,
                   useCaseSensitiveFileNames, lastCall, convertVars, pluginVars, visitVars>>

\* Paths are sequences of characters.
Characters == {"A", "a", "/"}

Paths == BoundedSeq(Characters, MaxPathLen)

UpperCase == {"A"}

\* String.prototype.toLowerCase, character by character.
LowerChar(ch) == IF ch = "A" THEN "a" ELSE ch

ToLowerCase(str) == [i \in DOMAIN str |-> LowerChar(str[i])]

CanonicalFileNameSwapped(caseSensitive, fileName) ==
    IF caseSensitive THEN ToLowerCase(fileName) ELSE fileName

\* Line 386:
\* ts.sys.useCaseSensitiveFileNames ? fileName : fileName.toLowerCase()
CanonicalFileName(caseSensitive, fileName) ==
    IF caseSensitive THEN fileName ELSE ToLowerCase(fileName)

\* Lines 385-387: getCanonicalFileName(fileName), and getCanonicalFileName
\* again of what it returned.
GetCanonicalFileName(self, fileName) ==
    /\ lastCall' = [op       |-> "getCanonicalFileName",
                    self     |-> self,
                    fileName |-> fileName,
                    result   |-> CanonicalFileName(useCaseSensitiveFileNames, fileName),
                    again    |-> CanonicalFileName(useCaseSensitiveFileNames,
                                    CanonicalFileName(useCaseSensitiveFileNames, fileName))]
    /\ UNCHANGED <<currentDirectory, sysCwd, cwdReturned, cwdComputed,
                   useCaseSensitiveFileNames, convertVars, pluginVars, visitVars>>

\* Return code of ts.sys.readFile when the file encoding is unsupported.
ERROR_UNSUPPORTED_FILE_ENCODING == -2147024809

\* The error number of an error that carries none of its own.
NoNumber == 0

\* The files ts.sys.readFile is asked for, and what the read does.
DiskFiles == {"a.ts", "empty.ts", "locked.ts", "latin.ts", "gone.ts"}

Text(t) == [kind |-> "text", text |-> t, number |-> NoNumber, message |-> ""]

Throw(n, m) == [kind |-> "throw", text |-> "", number |-> n, message |-> m]

NoText == [kind |-> "undefined", text |-> "", number |-> NoNumber, message |-> ""]

\* ts.sys.readFile(filename, charset): the text, undefined when the file does
\* not exist, or a thrown error.
ReadFile(fileName) ==
    CASE fileName = "a.ts"      -> Text("var a;")
      [] fileName = "empty.ts"  -> Text("")
      [] fileName = "locked.ts" -> Throw(NoNumber, "EACCES: permission denied")
      [] fileName = "latin.ts"  -> Throw(ERROR_UNSUPPORTED_FILE_ENCODING, "Invalid argument")
      [] OTHER                  -> NoText

ReportedOwnMessage(read, onError) ==
    IF read.kind = "throw" /\ onError THEN <<read.message>> ELSE <<>>

\* Lines 328-331: what the catch block passes to onError.
Reported(read, onError) ==
    IF read.kind = "throw" /\ onError
    THEN <<IF read.number = ERROR_UNSUPPORTED_FILE_ENCODING
           THEN "Unsupported file encoding" ELSE read.message>>
    ELSE <<>>

TextAfterReadNoFallback(read) ==
    IF read.kind = "text" THEN Text(read.text) ELSE NoText

\* Lines 326-333: the variable text after the try statement.
TextAfterRead(read) ==
    IF read.kind = "throw" THEN Text("") ELSE
    IF read.kind = "text" THEN Text(read.text) ELSE NoText

NoSourceFile == [kind |-> "undefined", fileName |-> "", text |-> ""]

SourceFileResultAlways(fileName, text) ==
    [kind |-> "sourceFile", fileName |-> fileName, text |-> text.text]

\* Line 335:
\* text !== undefined ? ts.createSourceFile(filename, text, ...) : undefined
SourceFileResult(fileName, text) ==
    IF text.kind # "undefined"
    THEN [kind |-> "sourceFile", fileName |-> fileName, text |-> text.text]
    ELSE NoSourceFile

\* Lines 325-336: getSourceFile(filename, languageVersion, onError)
GetSourceFile(self, fileName, onError) ==
    LET read == ReadFile(fileName) IN
    /\ lastCall' = [op       |-> "getSourceFile",
                    self     |-> self,
                    fileName |-> fileName,
                    onError  |-> onError,
                    read     |-> read.kind,
                    reported |-> Reported(read, onError),
                    result   |-> SourceFileResult(fileName, TextAfterRead(read))]
    /\ UNCHANGED <<currentDirectory, sysCwd, cwdReturned, cwdComputed,
                   useCaseSensitiveFileNames, convertVars, pluginVars, visitVars>>

OutputFiles == {"a.js", "b.js"}

OutputData == {"", "var a;"}

WriteFileWritesData(fileName, data) == <<[fileName |-> fileName, data |-> data]>>

\* Line 414: the body of writeFile is empty, nothing is written.
WriteFileWrites(fileName, data) == <<>>

\* Line 414: writeFile never calls onError.
WriteFileReported(onError) == <<>>

\* Lines 402-414: writeFile(fileName, data, writeByteOrderMark, onError)
WriteFile(self, fileName, data, writeByteOrderMark, onError) ==
    /\ lastCall' = [op                 |-> "writeFile",
                    self               |-> self,
                    fileName           |-> fileName,
                    data               |-> data,
                    writeByteOrderMark |-> writeByteOrderMark,
                    onError            |-> onError,
                    written            |-> WriteFileWrites(fileName, data),
                    reported           |-> WriteFileReported(onError)]
    /\ UNCHANGED <<currentDirectory, sysCwd, cwdReturned, cwdComputed,
                   useCaseSensitiveFileNames, convertVars, pluginVars, visitVars>>

\* this.application.compilerOptions.target: unset, or a ts.ScriptTarget.
Targets == {"unset", "ES3", "ES5", "ES6"}

DefaultLibSwapped(target) ==
    IF target = "ES6" THEN "lib.d.ts" ELSE "lib.es6.d.ts"

\* Lines 304-305: target == ts.ScriptTarget.ES6 ? 'lib.es6.d.ts' : 'lib.d.ts'
DefaultLib(target) ==
    IF target = "ES6" THEN "lib.es6.d.ts" ELSE "lib.d.ts"

\* Lines 303-306: getDefaultLib()
GetDefaultLib(self, target) ==
    /\ lastCall' = [op     |-> "getDefaultLib",
                    self   |-> self,
                    target |-> target,
                    lib    |-> DefaultLib(target)]
    /\ UNCHANGED <<currentDirectory, sysCwd, cwdReturned, cwdComputed,
                   useCaseSensitiveFileNames, convertVars, pluginVars, visitVars>>

\* td.tsPath: where the TypeScript front-end is installed: /t\x or /x.
TsPaths == {<<"/", "t", "\\", "x">>, <<"/", "x">>}

\* String.prototype.lastIndexOf("/"), counted from 1; 0 when there is none.
LastIndexOf(path, ch) ==
    LET hits == {i \in 1..Len(path) : path[i] = ch}
    IN  IF hits = {} THEN 0 ELSE CHOOSE i \in hits : \A j \in hits : i >= j

Max(a, b) == IF a >= b THEN a ELSE b

\* ts.getDirectoryPath(path):
\* path.substr(0, Math.max(getRootLength(path), path.lastIndexOf("/")))
DirectoryPath(path) ==
    SubSeq(path, 1, Max(RootLength(path), LastIndexOf(path, "/") - 1))

\* Path.join(path, 'bin', lib): the parts, which the separator joins.
PathJoin(path, dir, lib) == <<path, dir, lib>>

\* Lines 346-350: getDefaultLibFilename()
GetDefaultLibFilename(self, target, tsPath) ==
    /\ lastCall' = [op       |-> "getDefaultLibFilename",
                    self     |-> self,
                    target   |-> target,
                    tsPath   |-> tsPath,
                    filename |-> PathJoin(DirectoryPath(NormalizePath(tsPath)),
                                          "bin", DefaultLib(target))]
    /\ UNCHANGED <<currentDirectory, sysCwd, cwdReturned, cwdComputed,
                   useCaseSensitiveFileNames, convertVars, pluginVars, visitVars>>

\* An option: its name, its ParameterType, the values of a Map option and
\* its defaultValue; Undefined stands for a property the literal leaves out.
Parameter(name, type, map, defaultValue) ==
    [name |-> name, type |-> type, map |-> map, defaultValue |-> defaultValue]

\* super.getParameters(): the options of the plugin host and of its plugins.
InheritedParameters ==
    {<<>>,
     <<Parameter("theme", Undefined, {}, "default")>>,
     <<Parameter("theme", Undefined, {}, "default"),
       Parameter("gitRevision", Undefined, {}, Undefined)>>}

\* Lines 230-253: the array literal passed to concat.
ConverterParameters ==
    <<Parameter("name", Undefined, {}, Undefined),
      Parameter("mode", "Map",
                {<<"file", "SourceFileMode.File">>, <<"modules", "SourceFileMode.Modules">>},
                "SourceFileMode.Modules"),
      Parameter("externalPattern", Undefined, {}, Undefined),
      Parameter("includeDeclarations", "Boolean", {}, Undefined),
      Parameter("excludeExternals", "Boolean", {}, Undefined)>>

ConcatReversed(inherited, own) == own \o inherited

\* Line 230: super.getParameters().concat([...])
Concat(inherited, own) == inherited \o own

\* Lines 229-254: getParameters()
GetParameters(self, inherited) ==
    /\ lastCall' = [op         |-> "getParameters",
                    self       |-> self,
                    inherited  |-> inherited,
                    parameters |-> Concat(inherited, ConverterParameters)]
    /\ UNCHANGED <<currentDirectory, sysCwd, cwdReturned, cwdComputed,
                   useCaseSensitiveFileNames, convertVars, pluginVars, visitVars>>

----------------------------------------------------------------------------

(* Lines 278-280: visit(context, sourceFile), the recursive walk of one      *)
(* source file.  visit and Context are defined outside Converter.ts; the    *)
(* walk below follows their documented behaviour.                           *)

Nodes == 1..MaxNodes

Symbols == {"s1", "s2"}

SourceFileNode == 0

ProjectScope == 0

\* A node below the source file: its parent is the source file or an earlier
\* node.  A declaration has a symbol; a statement is of no interest to the
\* documentation; a filtered node is a declaration a filter rejects.
NodeShapes(n) ==
    [parent : 0..(n - 1), kind : {"declaration"}, symbol : Symbols]
        \cup [parent : 0..(n - 1), kind : {"statement", "filtered"}, symbol : {"none"}]

SyntaxTrees == {t \in [Nodes -> UNION {NodeShapes(n) : n \in Nodes}] :
                    \A n \in Nodes : t[n] \in NodeShapes(n)}

\* The next child of node that visit has not yet been called on, 0 if none.
NextChild(node, from) ==
    LET rest == {n \in Nodes : n >= from /\ ast[n].parent = node}
    IN  IF rest = {} THEN 0 ELSE CHOOSE n \in rest : \A m \in rest : n <= m

Frame(node, entry, pushed) ==
    [node |-> node, entry |-> entry, pushed |-> pushed, next |-> 1]

TopFrame == walk.frames[Len(walk.frames)]

\* The frames below the innermost, the innermost having called visit on the
\* children before next.
Advanced(next) ==
    [walk.frames EXCEPT ![Len(walk.frames)].next = next]

LookupMiss(symbols, symbol) == NoReflection

\* The symbol-to-reflection map of the Context.
Lookup(symbols, symbol) == symbols[symbol]

ScopeKept(scope, pushed) == scope

\* The scope is popped when the visit of a node that pushed one returns.
ScopeAfterReturn(scope, pushed) ==
    IF pushed THEN SubSeq(scope, 1, Len(scope) - 1) ELSE scope

VisitResult(node, before, after) ==
    [node |-> node, before |-> before, after |-> after]

\* convert calls visit(context, sourceFile) for the next file; the same tree
\* stands for each file.
VisitFile ==
    /\ walk.frames = <<>>
    /\ walk.filesLeft > 0
    /\ walk' = [walk EXCEPT !.frames = <<Frame(SourceFileNode, walk.scope, FALSE)>>,
                            !.filesLeft = @ - 1,
                            !.file = @ + 1]
    /\ UNCHANGED <<ast, reflected, convertVars, hostVars, pluginVars>>

\* visit of a statement or of a filtered declaration returns at once.
VisitNodeSkipped ==
    /\ walk.frames # <<>>
    /\ LET n == NextChild(TopFrame.node, TopFrame.next) IN
        /\ n # 0
        /\ ast[n].kind # "declaration"
        /\ walk' = [walk EXCEPT
                !.frames = Advanced(n + 1),
                !.scope = ScopeAfterReturn(walk.scope, FALSE),
                !.returns = @ \cup {VisitResult(n, walk.scope,
                                        ScopeAfterReturn(walk.scope, FALSE))}]
    /\ UNCHANGED <<ast, reflected, convertVars, hostVars, pluginVars>>

\* visit of a declaration: the reflection of its symbol is looked up or
\* created as a child of the current scope, and becomes the scope of the
\* children.
VisitNodeDeclared ==
    /\ walk.frames # <<>>
    /\ LET n == NextChild(TopFrame.node, TopFrame.next) IN
        /\ n # 0
        /\ ast[n].kind = "declaration"
        /\ LET known == Lookup(reflected.symbols, ast[n].symbol)
               r     == IF known # NoReflection THEN known
                        ELSE Len(reflected.reflections) + 1
           IN /\ reflected' =
                    [symbols |-> [reflected.symbols EXCEPT ![ast[n].symbol] = r],
                     reflections |->
                        IF known # NoReflection THEN reflected.reflections
                        ELSE Append(reflected.reflections,
                                [parent |-> walk.scope[Len(walk.scope)],
                                 symbol |-> ast[n].symbol]),
                     sites |-> reflected.sites \cup
                        {[file |-> walk.file, node |-> n,
                          symbol |-> ast[n].symbol, reflection |-> r]}]
              /\ walk' = [walk EXCEPT
                    !.frames = Append(Advanced(n + 1), Frame(n, walk.scope, TRUE)),
                    !.scope = Append(@, r)]
    /\ UNCHANGED <<ast, convertVars, hostVars, pluginVars>>

\* visit returns once it has been called on every child of its node.
VisitNodeReturn ==
    /\ walk.frames # <<>>
    /\ NextChild(TopFrame.node, TopFrame.next) = 0
    /\ LET after == ScopeAfterReturn(walk.scope, TopFrame.pushed) IN
        walk' = [walk EXCEPT
            !.frames = SubSeq(@, 1, Len(@) - 1),
            !.scope = after,
            !.returns = @ \cup {VisitResult(TopFrame.node, TopFrame.entry, after)}]
    /\ UNCHANGED <<ast, reflected, convertVars, hostVars, pluginVars>>

NoWalk(files) ==
    [frames |-> <<>>, scope |-> <<ProjectScope>>, returns |-> {},
     filesLeft |-> files, file |-> 0]

NothingReflected ==
    [symbols |-> [s \in Symbols |-> NoReflection], reflections |-> <<>>, sites |-> {}]

\* No source file is being walked.
VisitIdle ==
    /\ ast = <<>>
    /\ walk = NoWalk(0)
    /\ reflected = NothingReflected

----------------------------------------------------------------------------

InitConvert ==
    /\ calls = <<>>
    /\ stack = <<>>
    /\ projects = <<>>
    /\ contexts = <<>>
    /\ log = <<>>

\* The caller's array holds one file name that is already normalized.
OneFileName == fileNames = << <<"a">> >>

NoCall == [op |-> "none"]

\* A Converter is constructed with currentDirectory unset.
InitConverters ==
    /\ currentDirectory = [c \in Converters |-> Undefined]
    /\ cwdReturned = [c \in Converters |-> <<>>]
    /\ cwdComputed = [c \in Converters |-> 0]
    /\ lastCall = NoCall

\* The platform while only convert is looked at.
HostIdle ==
    /\ InitConverters
    /\ sysCwd = "/a"
    /\ useCaseSensitiveFileNames = TRUE

\* A constructed Converter, no source file being walked.
InitConstructed ==
    /\ plugins = Constructed
    /\ VisitIdle

\* The CompilerHost callbacks of two Converters on any platform, no convert
\* call running.
InitHost ==
    /\ InitConvert
    /\ InitConverters
    /\ OneFileName
    /\ InitConstructed
    /\ opsLeft = 0
    /\ callsLeft = 0
    /\ sysCwd \in Directories
    /\ useCaseSensitiveFileNames \in BOOLEAN

\* One convert call whose listeners add reflections to the index and remove
\* reflections from it.
Init ==
    /\ InitConvert
    /\ HostIdle
    /\ OneFileName
    /\ InitConstructed
    /\ opsLeft = MaxListenerOps
    /\ callsLeft = 1

\* Several convert calls, one after another or nested; the listeners leave
\* the index alone.
InitCalls ==
    /\ InitConvert
    /\ HostIdle
    /\ OneFileName
    /\ InitConstructed
    /\ opsLeft = 0
    /\ callsLeft = MaxCalls

\* One convert call on any array of file names.
InitNames ==
    /\ InitConvert
    /\ HostIdle
    /\ fileNames \in FileNameLists
    /\ InitConstructed
    /\ opsLeft = 0
    /\ callsLeft = 1

\* A Converter is constructed over any registry of plugins, then converts.
InitPlugins ==
    /\ InitConvert
    /\ HostIdle
    /\ OneFileName
    /\ plugins \in {NotConstructed(registry) : registry \in Registries}
    /\ VisitIdle
    /\ opsLeft = 0
    /\ callsLeft = 1

\* visit walks two source files of any shape, one after the other.
InitVisit ==
    /\ InitConvert
    /\ HostIdle
    /\ OneFileName
    /\ plugins = Constructed
    /\ ast \in SyntaxTrees
    /\ walk = NoWalk(2)
    /\ reflected = NothingReflected
    /\ opsLeft = 0
    /\ callsLeft = 0

Next ==
    \/ \E sf \in SourceFileLists : Convert(sf)
    \/ \E c \in DOMAIN calls :
        \/ \E e \in ListenerEffects(projects[calls[c].project]) : DispatchBegin(c, e)
        \/ \E e \in ListenerEffects(projects[calls[c].project]) : VisitSourceFile(c, e)
        \/ FilesDone(c)
        \/ VisitRoot(c)
        \/ \E e \in ListenerEffects(CreateReflection(projects[calls[c].project])) :
                VisitDeclaration(c, e)
        \/ VisitReturn(c)
        \/ \E e \in ListenerEffects(projects[calls[c].project]) : DispatchResolveBegin(c, e)
        \/ ForInStart(c)
        \/ \E id \in 1..projects[calls[c].project].nextId,
                 e \in ListenerEffects(projects[calls[c].project]) :
                DispatchResolve(c, id, e)
        \/ ForInEnd(c)
        \/ \E e \in ListenerEffects(projects[calls[c].project]) : DispatchResolveEnd(c, e)
        \/ \E e \in ListenerEffects(projects[calls[c].project]) : DispatchEnd(c, e)
        \/ Return(c)

Spec == Init /\ [][Next]_vars

SpecCalls == InitCalls /\ [][Next]_vars

\* One convert call whose listeners and visits may raise errors.
NextRaising ==
    \/ Next
    \/ \E c \in DOMAIN calls : Raise(c)

SpecRaising == Init /\ [][NextRaising]_vars

SpecNames == InitNames /\ [][Next]_vars

\* convert runs on one thread and is not suspended: a step that can be taken
\* is taken.
SpecLive == Init /\ [][Next]_vars /\ WF_vars(Next)

NextPlugins ==
    \/ Construct
    \/ \E n \in PluginNames : ActivatePlugin(n)
    \/ ConstructorReturn
    \/ Next

SpecPlugins == InitPlugins /\ [][NextPlugins]_vars

NextVisit ==
    \/ VisitFile
    \/ VisitNodeSkipped
    \/ VisitNodeDeclared
    \/ VisitNodeReturn

SpecVisit == InitVisit /\ [][NextVisit]_vars

NextHost ==
    \/ \E self \in Converters : GetCurrentDirectory(self)
    \/ \E dir \in Directories : ChangeDirectory(dir)
    \/ \E self \in Converters, fileName \in DiskFiles, onError \in BOOLEAN :
            GetSourceFile(self, fileName, onError)

SpecHost == InitHost /\ [][NextHost]_vars

\* getCanonicalFileName on any platform, for every path.
NextCanonical ==
    \/ \E dir \in Directories : ChangeDirectory(dir)
    \/ \E self \in Converters, fileName \in Paths : GetCanonicalFileName(self, fileName)

SpecCanonical == InitHost /\ [][NextCanonical]_vars

\* The callbacks and methods whose result does not depend on the file system.
NextCallbacks ==
    \/ \E self \in Converters : GetCurrentDirectory(self)
    \/ \E dir \in Directories : ChangeDirectory(dir)
    \/ \E self \in Converters, fileName \in OutputFiles, data \in OutputData,
          writeByteOrderMark \in BOOLEAN, onError \in BOOLEAN :
            WriteFile(self, fileName, data, writeByteOrderMark, onError)
    \/ \E self \in Converters, target \in Targets : GetDefaultLib(self, target)
    \/ \E self \in Converters, target \in Targets, tsPath \in TsPaths :
            GetDefaultLibFilename(self, target, tsPath)
    \/ \E self \in Converters, inherited \in InheritedParameters :
            GetParameters(self, inherited)

SpecCallbacks == InitHost /\ [][NextCallbacks]_vars

----------------------------------------------------------------------------
(* Properties of convert.                                                   *)

\* The position of an event in the lifecycle of one convert call.
Rank(ev) ==
    CASE ev = EVENT_BEGIN         -> 0
      [] ev = EVENT_RESOLVE_BEGIN -> 2
      [] ev = EVENT_RESOLVE       -> 3
      [] ev = EVENT_RESOLVE_END   -> 4
      [] ev = EVENT_END           -> 5
      [] OTHER                    -> 1   \* a file visit, "file begin", "created"

Before(j, c, ev) == \E i \in 1..(j - 1) : log[i].call = c /\ log[i].ev = ev

\* How often call c dispatched event ev.
Dispatches(c, ev) == Cardinality({i \in DOMAIN log : log[i].call = c /\ log[i].ev = ev})

\* How often call c dispatched "resolve" for reflection r.
Resolved(c, r) ==
    Cardinality({i \in DOMAIN log :
        log[i].call = c /\ log[i].ev = EVENT_RESOLVE /\ log[i].refl = r})

PastResolve(c) == calls[c].pc \in {"resolveEnd", "end", "return", "returned"}

PastFiles(c) == calls[c].pc \in {"resolveBegin", "forIn", "resolve"} \/ PastResolve(c)

Returned(c) == calls[c].result.returned

\* C1: within one convert call the lifecycle events are totally ordered:
\* "begin" comes before every file visit and every "created" event, these
\* come before "resolveBegin", every "resolveReflection" lies between
\* "resolveBegin" and "resolveEnd", and "resolveEnd" comes before "end".
C1_LifecycleOrder ==
    \A j \in DOMAIN log :
        LET c == log[j].call
            ev == log[j].ev
        IN /\ \A i \in 1..(j - 1) : log[i].call = c => Rank(log[i].ev) <= Rank(ev)
           /\ Rank(ev) > 0 => Before(j, c, EVENT_BEGIN)
           /\ Rank(ev) > 2 => Before(j, c, EVENT_RESOLVE_BEGIN)
           /\ Rank(ev) > 4 => Before(j, c, EVENT_RESOLVE_END)

\* A call that visited two files, created a reflection and resolved two has
\* dispatched "end".
C1_Witness ==
    \E c \in DOMAIN calls :
        /\ Dispatches(c, EVENT_END) = 1
        /\ Dispatches(c, VISIT) = 2
        /\ Dispatches(c, EVENT_CREATE_DECLARATION) = 1
        /\ Dispatches(c, EVENT_RESOLVE) = 2

\* C2 (as claimed): every reflection that is in the index when the resolve
\* pass starts is dispatched "resolveReflection" exactly once in that call,
\* whatever the listeners add to or remove from the index meanwhile.
C2_EveryReflectionResolvedOnce ==
    \A c \in DOMAIN calls :
        /\ \A r \in calls[c].keys : Resolved(c, r) <= 1
        /\ PastResolve(c) => \A r \in calls[c].keys : Resolved(c, r) = 1

\* C3: a reflection that a listener adds to the index while the for-in loop
\* of the resolve pass runs is not dispatched "resolveReflection" in that
\* pass.
C3_AddedNotResolved ==
    \A c \in DOMAIN calls : \A r \in calls[c].addedInPass : Resolved(c, r) = 0

\* The pass is over, a listener added a reflection during it and that
\* reflection is still in the index.
C3_Witness ==
    \E c \in DOMAIN calls :
        /\ PastResolve(c)
        /\ calls[c].keys # {}
        /\ calls[c].addedInPass \cap projects[calls[c].project].reflections # {}

\* The "file begin" dispatches and root visits of call c, in order.
FileTrace(c) ==
    LET picked == SelectSeq(log,
            LAMBDA e : e.call = c /\ e.ev \in {EVENT_FILE_BEGIN, VISIT})
    IN [i \in DOMAIN picked |-> <<picked[i].ev, picked[i].file>>]

RECURSIVE FileBeginThenVisit(_)
FileBeginThenVisit(files) ==
    IF files = <<>> THEN <<>>
    ELSE <<<<EVENT_FILE_BEGIN, Head(files)>>, <<VISIT, Head(files)>>>>
            \o FileBeginThenVisit(Tail(files))

IsPrefix(s, t) == Len(s) <= Len(t) /\ SubSeq(t, 1, Len(s)) = s

\* C4: for every source file the program reports, in the program's order,
\* convert dispatches "fileBegin" and then visits the file's root node; no
\* file is skipped or visited twice.
C4_FilesInOrder ==
    \A c \in DOMAIN calls :
        /\ IsPrefix(FileTrace(c), FileBeginThenVisit(calls[c].sourceFiles))
        /\ PastFiles(c) => FileTrace(c) = FileBeginThenVisit(calls[c].sourceFiles)

\* Both files of a two-file program have been visited, b.ts first.
C4_Witness ==
    \E c \in DOMAIN calls :
        /\ PastFiles(c)
        /\ calls[c].sourceFiles = <<"b.ts", "a.ts">>
        /\ Len(FileTrace(c)) = 4

\* C5: diagnostics never abort convert: whatever the program's and the type
\* checker's diagnostics are, the call dispatches "begin", visits every
\* file, runs the resolve pass, dispatches "end" and returns the program's
\* diagnostics followed by the checker's, together with the project.
C5_DiagnosticsReturned ==
    \A c \in DOMAIN calls :
        /\ calls[c].programDiags = ProgramDiagnostics(calls[c].sourceFiles)
        /\ calls[c].checkerDiags = CheckerDiagnostics(calls[c].sourceFiles)
        /\ Returned(c) =>
            /\ calls[c].result.errors = calls[c].programDiags \o calls[c].checkerDiags
            /\ calls[c].result.project = contexts[calls[c].context].project
            /\ Dispatches(c, EVENT_BEGIN) = 1
            /\ Dispatches(c, VISIT) = Len(calls[c].sourceFiles)
            /\ Dispatches(c, EVENT_RESOLVE_BEGIN) = 1
            /\ Dispatches(c, EVENT_RESOLVE_END) = 1
            /\ Dispatches(c, EVENT_END) = 1

\* A call with syntactic and semantic diagnostics has returned.
C5_Witness ==
    \E c \in DOMAIN calls :
        /\ Returned(c)
        /\ calls[c].programDiags # <<>>
        /\ calls[c].checkerDiags # <<>>
        /\ Len(calls[c].result.errors) = 3
        /\ projects[calls[c].result.project].reflections # {}

\* C10: each convert call has a project and a Context of its own, and a
\* call never adds to or changes the project an earlier call returned.
C10_FreshPerCall ==
    [][/\ \A c, d \in DOMAIN calls' :
            c # d => /\ calls'[c].project # calls'[d].project
                     /\ calls'[c].context # calls'[d].context
       /\ \A c \in DOMAIN calls' :
            contexts'[calls'[c].context] = [project |-> calls'[c].project, call |-> c]
       /\ \A c \in DOMAIN calls :
            Returned(c) => projects'[calls[c].project] = projects[calls[c].project]
      ]_vars

\* A call has returned a project with reflections and another call, still
\* running, has created reflections of its own.
C10_Witness ==
    \E c, d \in DOMAIN calls :
        /\ Returned(c) /\ ~Returned(d)
        /\ projects[calls[c].project].reflections # {}
        /\ projects[calls[d].project].reflections # {}

----------------------------------------------------------------------------
(* Properties of the CompilerHost callbacks.                                *)

EmptySourceFile(fileName) ==
    [kind |-> "sourceFile", fileName |-> fileName, text |-> ""]

\* C6: getSourceFile tells an unreadable file from a missing one: when the
\* read raises, the result is a source file of empty text and the error
\* callback (when one was passed) receives a warning; when the read reports
\* undefined, the result is undefined and no source file is created.
C6_UnreadableIsNotMissing ==
    lastCall.op = "getSourceFile" =>
        /\ lastCall.read = "throw" =>
            /\ lastCall.result = EmptySourceFile(lastCall.fileName)
            /\ lastCall.onError => Len(lastCall.reported) = 1
        /\ lastCall.read = "undefined" =>
            /\ lastCall.result = NoSourceFile
            /\ lastCall.result.kind # "sourceFile"

\* A read that raised the unsupported-encoding error was reported.
C6_Witness ==
    /\ lastCall.op = "getSourceFile"
    /\ lastCall.fileName = "latin.ts"
    /\ lastCall.reported = <<"Unsupported file encoding">>
    /\ lastCall.result.kind = "sourceFile"

\* The conditions under which a file cannot be read.
Unreadable(fileName) == fileName \in {"locked.ts", "gone.ts", "latin.ts"}

\* C7 (as claimed): every unreadable-file condition (permission failure,
\* missing file, unsupported encoding) is reported to the error callback and
\* empty text is substituted.
C7_EveryConditionSurfaced ==
    (lastCall.op = "getSourceFile" /\ lastCall.onError /\ Unreadable(lastCall.fileName)) =>
        /\ Len(lastCall.reported) = 1
        /\ lastCall.result = EmptySourceFile(lastCall.fileName)

\* C7 (amended): a permission failure and an unsupported encoding, where the
\* read raises, are reported to the error callback when one was passed, and
\* empty text is substituted; a missing file, where the read reports
\* undefined, is not reported and yields no source file.
C7_RaisedConditionsSurfaced ==
    (lastCall.op = "getSourceFile" /\ Unreadable(lastCall.fileName)) =>
        IF lastCall.fileName = "gone.ts"
        THEN lastCall.reported = <<>> /\ lastCall.result = NoSourceFile
        ELSE /\ Len(lastCall.reported) = (IF lastCall.onError THEN 1 ELSE 0)
             /\ lastCall.result = EmptySourceFile(lastCall.fileName)

\* A permission failure was reported and replaced by empty text.
C7_Witness ==
    /\ lastCall.op = "getSourceFile"
    /\ lastCall.fileName = "locked.ts"
    /\ lastCall.reported = <<"EACCES: permission denied">>
    /\ lastCall.result.text = ""

C9_CanonicalIdempotent ==
    lastCall.op = "getCanonicalFileName" =>
        LET arg == lastCall.fileName
            res == lastCall.result
        IN /\ lastCall.again = res
           /\ useCaseSensitiveFileNames => res = arg
           /\ ~useCaseSensitiveFileNames =>
                /\ Len(res) = Len(arg)
                /\ \A i \in DOMAIN arg :
                    /\ res[i] \notin UpperCase
                    /\ arg[i] \notin UpperCase => res[i] = arg[i]
                    /\ arg[i] = "A" => res[i] = "a"

\* A path with an upper-case character was lower-cased.
C9_Witness ==
    /\ lastCall.op = "getCanonicalFileName"
    /\ ~useCaseSensitiveFileNames
    /\ lastCall.fileName = <<"/", "A">>
    /\ lastCall.result = <<"/", "a">>

----------------------------------------------------------------------------
(* Construction and plugin activation.                                      *)

\* The plugins are activated in an order that honours every constraint.
ActivationOrdered ==
    \A i, j \in DOMAIN plugins.active :
        Precedes(plugins.registry, plugins.active[j], plugins.active[i]) => j < i

\* A registry with a cycle or an unknown name activates nothing and yields
\* no Converter, only a configuration error.
BadRegistryFails ==
    (UnknownPlugin(plugins.registry) \/ CyclicOrder(plugins.registry)) =>
        /\ plugins.active = <<>>
        /\ plugins.status \in {"new", "failed"}
        /\ plugins.status = "failed" => plugins.error = "configuration"

\* C11: constructing a Converter activates the registered plugins in an
\* order that satisfies every predecessor/successor constraint; a cycle or an
\* unknown plugin name makes the construction fail with a configuration
\* error and activates nothing; and every convert call runs on a Converter
\* all of whose registered plugins are active.
C11_ActivationAllOrNothing ==
    /\ ActivationOrdered
    /\ BadRegistryFails
    /\ calls # <<>> => /\ plugins.status = "ready"
                       /\ Active = DOMAIN plugins.registry

\* A convert call runs on a Converter whose three plugins were activated
\* under two ordering constraints.
C11_Witness ==
    /\ calls # <<>>
    /\ Len(plugins.active) = 3
    /\ \E a, b, c \in PluginNames :
        /\ Precedes(plugins.registry, a, b)
        /\ Precedes(plugins.registry, b, c)

----------------------------------------------------------------------------
(* The file names handed to the front-end.                                  *)

Chars(path) == {path[i] : i \in DOMAIN path}

\* The parts of a path behind its root.
Parts(path) ==
    LET parts == Split(SubSeq(path, RootLength(path) + 1, Len(path)))
    IN  {parts[i] : i \in DOMAIN parts}

\* A path in normalized form: forward slashes only and no "." part.
IsNormalized(path) == "\\" \notin Chars(path) /\ <<".">> \notin Parts(path)

\* C12: every file name passed to convert is normalized, slashes first and
\* then the path, before ts.createProgram is handed the list: the front-end
\* receives, entry for entry, the normalized form of what the caller passed
\* and no entry that is not in normalized form.
C12_NormalizedBeforeProgram ==
    \A c \in DOMAIN calls :
        LET given == calls[c].given
            rootNames == calls[c].rootNames
        IN  /\ Len(rootNames) = Len(given)
            /\ \A i \in DOMAIN given :
                /\ rootNames[i] = NormalizePath(NormalizeSlashes(given[i]))
                /\ IsNormalized(rootNames[i])

\* The front-end was handed two names, both rewritten: both were passed with
\* a backslash and one with a "." part that was dropped.
C12_Witness ==
    \E c \in DOMAIN calls :
        LET given == calls[c].given
            rootNames == calls[c].rootNames
        IN  /\ Len(given) = 2
            /\ \A i \in DOMAIN given :
                "\\" \in Chars(given[i]) /\ rootNames[i] # given[i]
            /\ \E i \in DOMAIN given : Len(rootNames[i]) < Len(given[i])
            /\ calls[c].pc # "begin"

----------------------------------------------------------------------------
(* Termination of convert.                                                  *)

\* The resolve pass of call c dispatches at most once per reflection that was
\* in the index when the pass started, however many the listeners add.
ResolvePassBounded(c) ==
    Dispatches(c, EVENT_RESOLVE) <= Cardinality(calls[c].keys)

\* Call c has dispatched "end" and returned its result.
EndedAndReturned(c) ==
    /\ c \in DOMAIN calls
    /\ Dispatches(c, EVENT_END) = 1
    /\ Returned(c)

\* C13: with finitely many source files and listeners that return, every
\* convert call that starts eventually dispatches "end" and returns, also
\* when resolve listeners add reflections during the resolve pass: the pass
\* is bounded by the index as it was when the pass started.
C13_ConvertTerminates ==
    /\ [](\A c \in DOMAIN calls : ResolvePassBounded(c))
    /\ \A c \in 1..MaxCalls : (c \in DOMAIN calls) ~> EndedAndReturned(c)

\* A call returned although its resolve listeners added reflections, which
\* are still in the index, during the resolve pass.
C13_Witness ==
    \E c \in DOMAIN calls :
        /\ EndedAndReturned(c)
        /\ Dispatches(c, EVENT_RESOLVE) > 0
        /\ Cardinality(calls[c].addedInPass \cap projects[calls[c].project].reflections) > 1

----------------------------------------------------------------------------
(* The walk of a source file.                                               *)

Kind(node) == IF node = SourceFileNode THEN "sourceFile" ELSE ast[node].kind

\* C14: when visit returns from any node the Context's scope stack is what
\* it was when visit was called on that node, whatever the shape of the
\* subtree and also when the node is a statement or is filtered out; so
\* after each file visit the scope is the project again.
C14_ScopeRestored ==
    /\ \A r \in walk.returns : r.after = r.before
    /\ walk.frames = <<>> => walk.scope = <<ProjectScope>>

\* Both files have been walked; visit returned from a filtered node and from
\* a declaration nested in another declaration, below which the scope was
\* two reflections deep.
C14_Witness ==
    /\ walk.frames = <<>>
    /\ walk.filesLeft = 0
    /\ \E r \in walk.returns : Kind(r.node) = "filtered"
    /\ \E r \in walk.returns : Kind(r.node) = "declaration" /\ Len(r.before) = 2

Sites(symbol) == {s \in reflected.sites : s.symbol = symbol}

\* C15: a symbol has at most one reflection: every declaration site of a
\* symbol maps to the same reflection, no two reflections are of the same
\* symbol, and the visit of a further declaration site of a mapped symbol
\* creates no reflection, so there are as many reflections as symbols whose
\* declarations were visited.
C15_OneReflectionPerSymbol ==
    /\ \A s, t \in reflected.sites : s.symbol = t.symbol => s.reflection = t.reflection
    /\ \A i, j \in DOMAIN reflected.reflections :
        reflected.reflections[i].symbol = reflected.reflections[j].symbol => i = j
    /\ \A s \in reflected.sites :
        /\ s.reflection \in DOMAIN reflected.reflections
        /\ reflected.reflections[s.reflection].symbol = s.symbol
    /\ Len(reflected.reflections) = Cardinality({s.symbol : s \in reflected.sites})

\* One symbol was declared at two nodes of the first file and again in the
\* second file, another symbol once: two reflections.
C15_Witness ==
    /\ Len(reflected.reflections) = 2
    /\ \E symbol \in Symbols :
        /\ \E s, t \in Sites(symbol) : s.file = 1 /\ t.file = 1 /\ s.node # t.node
        /\ \E s \in Sites(symbol) : s.file = 2

----------------------------------------------------------------------------
(* Further properties of the CompilerHost callbacks and of getParameters.   *)

\* C16: writeFile is a no-op: a call changes no state of any Converter, in
\* particular not the cached current directory, writes nothing and never
\* calls the error callback, whatever its arguments.
C16_WriteFileNoOp ==
    [][(lastCall'.op = "writeFile" /\ lastCall' # lastCall) =>
            /\ lastCall'.written = <<>>
            /\ lastCall'.reported = <<>>
            /\ currentDirectory' = currentDirectory
            /\ cwdReturned' = cwdReturned
            /\ cwdComputed' = cwdComputed]_vars

\* writeFile was called with data, a byte order mark and an error callback
\* on a Converter that has cached its current directory.
C16_Witness ==
    /\ lastCall.op = "writeFile"
    /\ lastCall.data # ""
    /\ lastCall.writeByteOrderMark
    /\ lastCall.onError
    /\ Cached(currentDirectory[lastCall.self])
    /\ lastCall.written = <<>>

\* C17: getDefaultLib returns 'lib.es6.d.ts' exactly when the target is ES6
\* and 'lib.d.ts' for every other target, the unset one included, and
\* getDefaultLibFilename returns that base name in the directory 'bin' of the
\* directory that holds the front-end (td.tsPath).
C17_DefaultLibByTarget ==
    /\ lastCall.op = "getDefaultLib" =>
        /\ lastCall.target = "ES6" => lastCall.lib = "lib.es6.d.ts"
        /\ lastCall.target # "ES6" => lastCall.lib = "lib.d.ts"
    /\ lastCall.op = "getDefaultLibFilename" =>
        LET root == lastCall.filename[1]
            path == NormalizeSlashes(lastCall.tsPath)
            rest == SubSeq(path, Len(root) + 1, Len(path))
        IN  /\ IsPrefix(root, path)
            /\ \A i \in 2..Len(rest) : rest[i] # "/"
            /\ root # <<>>
            /\ lastCall.filename[2] = "bin"
            /\ lastCall.filename[3] =
                (IF lastCall.target = "ES6" THEN "lib.es6.d.ts" ELSE "lib.d.ts")

\* The library file name of an unset target, for a front-end at /t\x.
C17_Witness ==
    /\ lastCall.op = "getDefaultLibFilename"
    /\ lastCall.target = "unset"
    /\ lastCall.tsPath = <<"/", "t", "\\", "x">>
    /\ lastCall.filename = << <<"/", "t">>, "bin", "lib.d.ts" >>

\* C18: the current-directory cache belongs to one Converter: the value a
\* Converter has cached is set or changed only by a getCurrentDirectory call
\* on that Converter, never by a call on the other one.
C18_CachePerConverter ==
    [][\A c \in Converters :
            currentDirectory'[c] # currentDirectory[c] =>
                Len(cwdReturned'[c]) = Len(cwdReturned[c]) + 1]_vars

\* The two Converters have cached different directories.
C18_Witness ==
    /\ currentDirectory["c1"] = "/a"
    /\ currentDirectory["c2"] = "/b"
    /\ Len(cwdReturned["c1"]) = 1
    /\ Len(cwdReturned["c2"]) = 1

\* C19: when the read raises, getSourceFile reports 'Unsupported file
\* encoding' exactly when the error's number is
\* ERROR_UNSUPPORTED_FILE_ENCODING and the error's own message otherwise;
\* without an error callback nothing is reported; in each of the three cases
\* the error is swallowed and a source file of empty text is returned.
C19_MessageByErrorNumber ==
    (lastCall.op = "getSourceFile" /\ lastCall.read = "throw") =>
        LET e == ReadFile(lastCall.fileName) IN
        /\ (lastCall.onError /\ e.number = ERROR_UNSUPPORTED_FILE_ENCODING) =>
                lastCall.reported = <<"Unsupported file encoding">>
        /\ (lastCall.onError /\ e.number # ERROR_UNSUPPORTED_FILE_ENCODING) =>
                /\ lastCall.reported = <<e.message>>
                /\ lastCall.reported # <<"Unsupported file encoding">>
        /\ ~lastCall.onError => lastCall.reported = <<>>
        /\ lastCall.result = EmptySourceFile(lastCall.fileName)

\* The unsupported-encoding error was raised with no error callback passed:
\* nothing was reported and an empty source file returned.
C19_Witness ==
    /\ lastCall.op = "getSourceFile"
    /\ lastCall.fileName = "latin.ts"
    /\ ~lastCall.onError
    /\ lastCall.reported = <<>>
    /\ lastCall.result = EmptySourceFile("latin.ts")

\* The options getParameters appends, by name.
Own(parameters, inherited) ==
    SubSeq(parameters, Len(inherited) + 1, Len(parameters))

Named(parameters, name) ==
    {parameters[i] : i \in {j \in DOMAIN parameters : parameters[j].name = name}}

\* What C20 says of the list apart from the defaults of the two boolean
\* options: the inherited options come first, then exactly the five options
\* name, mode, externalPattern, includeDeclarations and excludeExternals;
\* mode maps 'file' and 'modules' to the two modes and defaults to the
\* per-module one; externalPattern has no default; the last two are boolean.
ParameterSurface ==
    LET parameters == lastCall.parameters
        inherited  == lastCall.inherited
        own        == Own(parameters, inherited)
    IN  /\ IsPrefix(inherited, parameters)
        /\ [i \in DOMAIN own |-> own[i].name] =
             <<"name", "mode", "externalPattern", "includeDeclarations", "excludeExternals">>
        /\ \A p \in Named(own, "mode") :
            /\ p.type = "Map"
            /\ p.map = {<<"file", "SourceFileMode.File">>,
                        <<"modules", "SourceFileMode.Modules">>}
            /\ p.defaultValue = "SourceFileMode.Modules"
        /\ \A p \in Named(own, "externalPattern") : p.defaultValue = Undefined
        /\ \A p \in Named(own, "includeDeclarations") \cup Named(own, "excludeExternals") :
            p.type = "Boolean"

\* C20 (as claimed): getParameters returns the inherited options followed by
\* exactly the five options of the Converter, where mode defaults to the
\* per-module mode, externalPattern has no default and the two boolean
\* options default to false.
C20_BooleansDefaultFalse ==
    lastCall.op = "getParameters" =>
        /\ ParameterSurface
        /\ \A p \in Named(Own(lastCall.parameters, lastCall.inherited), "includeDeclarations")
                \cup Named(Own(lastCall.parameters, lastCall.inherited), "excludeExternals") :
            p.defaultValue = "false"

\* C20 (amended): the same list, where the two boolean options, like
\* externalPattern, are declared without a default value.
C20_BooleansDeclareNoDefault ==
    lastCall.op = "getParameters" =>
        /\ ParameterSurface
        /\ \A p \in Named(Own(lastCall.parameters, lastCall.inherited), "includeDeclarations")
                \cup Named(Own(lastCall.parameters, lastCall.inherited), "excludeExternals") :
            p.defaultValue = Undefined

\* getParameters returned seven options: two inherited ones and its five.
C20_Witness ==
    /\ lastCall.op = "getParameters"
    /\ Len(lastCall.inherited) = 2
    /\ Len(lastCall.parameters) = 7
    /\ lastCall.parameters[7].name = "excludeExternals"

----------------------------------------------------------------------------
(* One Context and one project per call.                                    *)

Once == {EVENT_BEGIN, EVENT_RESOLVE_BEGIN, EVENT_RESOLVE_END, EVENT_END}

EntriesOf(c) == {i \in DOMAIN log : log[i].call = c}

\* C21: in a convert call that returns, "begin", "resolveBegin",
\* "resolveEnd" and "end" are each dispatched exactly once; every dispatch of
\* the call, each "resolveReflection" included, carries the same Context, the
\* one the call created; and the project of the returned result is the
\* project bound to that Context.
C21_OnceEachSameContext ==
    \A c \in DOMAIN calls :
        /\ \A ev \in Once : Dispatches(c, ev) <= 1
        /\ Returned(c) => \A ev \in Once : Dispatches(c, ev) = 1
        /\ \A i \in EntriesOf(c) :
            /\ log[i].ctx = calls[c].context
            /\ contexts[log[i].ctx].call = c
            /\ Returned(c) => calls[c].result.project = contexts[log[i].ctx].project

\* A call returned that dispatched "resolveReflection", and whose dispatches
\* lie around those of a call a listener started.
C21_Witness ==
    \E c, d \in DOMAIN calls :
        /\ c # d
        /\ Returned(c) /\ Returned(d)
        /\ Dispatches(c, EVENT_RESOLVE) > 0
        /\ \E i, k \in EntriesOf(c), j \in EntriesOf(d) : i < j /\ j < k

----------------------------------------------------------------------------
(* Errors raised by listeners and visits.                                   *)

Raised(c) == calls[c].raised.is

\* C22: convert does not recover from an error a listener or a node visit
\* raises: the error leaves convert, the call dispatches no lifecycle event
\* and visits nothing after it (neither "resolveEnd" nor "end" unless they
\* were dispatched before), and the call returns no result.
C22_RaisedErrorPropagates ==
    \A c \in DOMAIN calls :
        Raised(c) =>
            /\ calls[c].pc = "raised"
            /\ \A k \in DOMAIN stack : stack[k] # c
            /\ ~Returned(c)
            /\ \A i \in EntriesOf(c) : i <= calls[c].raised.at
            /\ calls[c].raised.pc # "return" => Dispatches(c, EVENT_END) = 0
            /\ calls[c].raised.pc \notin {"end", "return"} =>
                    Dispatches(c, EVENT_RESOLVE_END) = 0

\* A listener of "resolveReflection" raised after the second reflection: the
\* call dispatched "resolveBegin" but neither "resolveEnd" nor "end".
C22_Witness ==
    \E c \in DOMAIN calls :
        /\ Raised(c)
        /\ calls[c].raised.pc = "resolve"
        /\ Dispatches(c, EVENT_RESOLVE_BEGIN) = 1
        /\ Dispatches(c, EVENT_RESOLVE) = 2
        /\ Dispatches(c, EVENT_RESOLVE_END) = 0
        /\ Dispatches(c, EVENT_END) = 0

----------------------------------------------------------------------------
(* The caller's array.                                                      *)

\* C23: convert overwrites the caller's fileNames array in place: once the
\* call has started its work the array has the length it had, each element
\* is the normalized form of the element that was at its position, and the
\* Context holds that same array.
C23_OverwrittenInPlace ==
    \A c \in DOMAIN calls :
        /\ Len(fileNames) = Len(calls[c].given)
        /\ \A i \in DOMAIN fileNames :
            /\ fileNames[i] = NormalizePath(NormalizeSlashes(calls[c].given[i]))
            /\ IsNormalized(fileNames[i])
        /\ calls[c].contextFileNames = ArgumentArray

\* A call returned and left two different names in the caller's array, both
\* of them changed.
C23_Witness ==
    \E c \in DOMAIN calls :
        /\ Returned(c)
        /\ Len(fileNames) = 2
        /\ fileNames[1] # fileNames[2]
        /\ fileNames[1] # calls[c].given[1]
        /\ fileNames[2] # calls[c].given[2]

====
